---- MODULE Spec2Model ----
(***************************************************************************)
(* Wealth Ultima demo benefit illustration (src/APP_CODE.py): the input    *)
(* form, the month-by-month projection of the fund value under the 4% and  *)
(* the 8% scenario, and the per-policy-year aggregation into table rows.   *)
(*                                                                         *)
(* Money.  The script computes in binary floating point.  Here every       *)
(* amount is an integer number of 1/Scale rupee and every product with a   *)
(* rate is rounded down to that unit.  The inputs stay whole rupees, as    *)
(* the form delivers them.  The table's round(x, 2) turns an amount into   *)
(* whole paise (half-to-even, as Python rounds).                           *)
(***************************************************************************)
EXTENDS Integers, Sequences, FiniteSets, TLC

\* ------------------------------------------------------------------ money
Scale == 200

Max(a, b) == IF a >= b THEN a ELSE b
Min(a, b) == IF a <= b THEN a ELSE b

\* floor(x * num / den), evaluated without leaving the 32-bit range
MulFrac(x, num, den) == (x \div den) * num + ((x % den) * num) \div den

\* floor(x * n / 10^6) for a rate n given in parts per million
MulPpm(x, n) ==
    LET q  == x \div 1000000
        r  == x % 1000000
        r1 == r \div 1000
        r0 == r % 1000
    IN  q * n + ((r1 * n + (r0 * n) \div 1000) \div 1000)

\* float(annual_premium), float-compatible use of sum_assured: rupees -> units
ToUnits(rupees) == rupees * Scale

\* round(x, 2): units -> whole paise, ties to the even paisa
Round2(x) ==
    LET q == x \div 2
    IN  IF x % 2 = 0 THEN q
        ELSE IF q % 2 = 0 THEN q ELSE q + 1

ToPaise(rupees) == rupees * 100

\* ------------------------------------------------------- sequence helpers
RECURSIVE SumRange(_, _, _)
\* sum(s[lo-1:hi]) in Python terms: the entries lo..hi (1-based), clipped
SumRange(s, lo, hi) ==
    IF lo > hi \/ lo > Len(s) THEN 0
    ELSE s[lo] + SumRange(s, lo + 1, hi)

RECURSIVE SumQuot(_, _, _, _)
SumQuot(s, lo, hi, n) ==
    IF lo > hi THEN 0 ELSE (s[lo] \div n) + SumQuot(s, lo + 1, hi, n)

RECURSIVE SumRem(_, _, _, _)
SumRem(s, lo, hi, n) ==
    IF lo > hi THEN 0 ELSE (s[lo] % n) + SumRem(s, lo + 1, hi, n)

\* sum(s[-n:]) / n, rounded down; the sum itself is never formed
AvgLast(s, n) ==
    LET lo == Len(s) - n + 1
        hi == Len(s)
    IN  SumQuot(s, lo, hi, n) + (SumRem(s, lo, hi, n) \div n)

SetLast(s, v) == [s EXCEPT ![Len(s)] = v]

\* ------------------------------------------------------ program constants
\* number_input bounds of the form (rupees, years)
MinPremium == 10000
MinSumAssured == 0
MinPolicyTerm == 10
MaxPolicyTerm == 40
MinPpt == 5
MaxPpt == 40

Funds == {"Equity Large Cap", "Bond Fund"}

\* FMC_map, in 1/10000 per annum (0.0135 and 0.0125)
FMC_map(fund_choice_) ==
    IF fund_choice_ = "Equity Large Cap" THEN 135 ELSE 125

\* pow(1 + r1, 1/12) - 1 and pow(1 + r2, 1/12) - 1, in parts per million
monthly_return_4 == 3274
monthly_return_8 == 6434

\* fmc / 12.0, in parts per million
monthly_fmc(fund_choice_) == (FMC_map(fund_choice_) * 100) \div 12

\* the "Gross Investment Return (%)" columns: r1 * 100 and r2 * 100
gross_return_4 == 4
gross_return_8 == 8

year_of_month(m_) == (m_ - 1) \div 12 + 1

\* --------------------------------------------------------- the input sets
MaxTermTried == 11
MaxPptTried == 12

PremiumChoices == {5000, 10000, 100000}
SumAssuredChoices == {0, 1000000, 5000000}
PolicyTermChoices == 9 .. MaxTermTried
PptChoices == {4, 5, 7, MaxPptTried}

\* ------------------------------------------------------------------ state
\* The form inputs, the two balances, the per-month lists and the loop's
\* locals under the script's names, plus pc (the script's position).  Left
\* out: age and gender (displayed only), and fund_4_monthly / fund_8_monthly,
\* which are written with the same values as end_of_month_fv4 / _fv8 and
\* never read.
VARIABLES
    pc, show_bi,
    annual_premium, sum_assured, policy_term, ppt, fund_choice,
    m, fv4, fv8,
    end_of_month_fv4, end_of_month_fv8,
    premium_monthly, allocation_charges_monthly, admin_charges_monthly,
    mortality_charges_monthly, gst_monthly, other_charges_monthly,
    guaranteed_additions_monthly, loyalty_additions_monthly,
    booster_additions_monthly,
    premium, pac_amount, admin_monthly, other_charges,
    monthly_mortality, gst, allocated_units_amount,
    mort_month4, mort_month8, gst4, gst8,
    guar_add_4, guar_add_8, loy_add_4, loy_add_8,
    booster_add_4, booster_add_8,
    y, rows

inputs == <<annual_premium, sum_assured, policy_term, ppt, fund_choice>>
balances == <<fv4, fv8>>
trackers == <<end_of_month_fv4, end_of_month_fv8,
              premium_monthly, allocation_charges_monthly,
              admin_charges_monthly, mortality_charges_monthly, gst_monthly,
              other_charges_monthly, guaranteed_additions_monthly,
              loyalty_additions_monthly, booster_additions_monthly>>
month_charges == <<premium, pac_amount, admin_monthly, other_charges,
                   monthly_mortality, gst, allocated_units_amount>>
deductions == <<mort_month4, mort_month8, gst4, gst8>>
additions == <<guar_add_4, guar_add_8, loy_add_4, loy_add_8,
               booster_add_4, booster_add_8>>
table == <<y, rows>>

vars == <<pc, show_bi, inputs, m, balances, trackers, month_charges,
          deductions, additions, table>>

total_months == policy_term * 12

\* the form as first rendered: every widget at its default value
Init ==
    /\ pc = "form"
    /\ show_bi = FALSE
    /\ annual_premium = 100000
    /\ sum_assured = 100000 * 10
    /\ policy_term = 20
    /\ ppt = 20
    /\ fund_choice = "Equity Large Cap"
    /\ m = 0
    /\ fv4 = 0
    /\ fv8 = 0
    /\ end_of_month_fv4 = <<>>
    /\ end_of_month_fv8 = <<>>
    /\ premium_monthly = <<>>
    /\ allocation_charges_monthly = <<>>
    /\ admin_charges_monthly = <<>>
    /\ mortality_charges_monthly = <<>>
    /\ gst_monthly = <<>>
    /\ other_charges_monthly = <<>>
    /\ guaranteed_additions_monthly = <<>>
    /\ loyalty_additions_monthly = <<>>
    /\ booster_additions_monthly = <<>>
    /\ premium = 0
    /\ pac_amount = 0
    /\ admin_monthly = 0
    /\ other_charges = 0
    /\ monthly_mortality = 0
    /\ gst = 0
    /\ allocated_units_amount = 0
    /\ mort_month4 = 0
    /\ mort_month8 = 0
    /\ gst4 = 0
    /\ gst8 = 0
    /\ guar_add_4 = 0
    /\ guar_add_8 = 0
    /\ loy_add_4 = 0
    /\ loy_add_8 = 0
    /\ booster_add_4 = 0
    /\ booster_add_8 = 0
    /\ y = 0
    /\ rows = <<>>

\* ------------------------------------------------------------ input form
\* what each number_input accepts
PremiumAccepted(v) == v >= MinPremium
SumAssuredAccepted(v) == v >= MinSumAssured
PolicyTermAccepted(v) == v >= MinPolicyTerm /\ v <= MaxPolicyTerm
PptAccepted(v) == v >= MinPpt /\ v <= MaxPpt

\* the user fills the form; the widgets keep only values inside their bounds
SetInputs ==
    /\ pc = "form"
    /\ \E ap \in PremiumChoices, sa \in SumAssuredChoices,
          term \in PolicyTermChoices, p \in PptChoices, f \in Funds :
          /\ PremiumAccepted(ap)
          /\ SumAssuredAccepted(sa)
          /\ PolicyTermAccepted(term)
          /\ PptAccepted(p)
          /\ annual_premium' = ap
          /\ sum_assured' = sa
          /\ policy_term' = term
          /\ ppt' = p
          /\ fund_choice' = f
    /\ UNCHANGED <<pc, show_bi, m, balances, trackers, month_charges,
                   deductions, additions, table>>

\* "Generate BI" pressed: the script runs on into the monthly model
GenerateBI ==
    /\ pc = "form"
    /\ show_bi' = TRUE
    /\ m' = 1
    /\ fv4' = 0
    /\ fv8' = 0
    /\ pc' = "alloc"
    /\ UNCHANGED <<inputs, trackers, month_charges, deductions, additions,
                   table>>

\* ---------------------------------------------- monthly model: the charges
\* premium received in month m_: the annual premium, at month 1 of each
\* policy year of the paying term
PremiumDue(m_, ppt_, annual_premium_) ==
    IF (m_ - 1) % 12 = 0 /\ year_of_month(m_) <= ppt_
    THEN ToUnits(annual_premium_)
    ELSE 0

\* the year-1 rate forgotten: 4% throughout years 1..5
PacPctNoFirstYear(yr) ==
    IF 1 <= yr /\ yr <= 5 THEN 4 ELSE 0

\* pac_pct, in percent
PacPct(yr) ==
    IF yr = 1 THEN 6
    ELSE IF 2 <= yr /\ yr <= 5 THEN 4
    ELSE 0

PacAmount(premium_, yr) ==
    IF premium_ > 0 THEN MulFrac(premium_, PacPct(yr), 100) ELSE 0

\* admin_annual / 12.0, admin_annual = 0.0165 * annual_premium in years 1..5
AdminMonthly(yr, annual_premium_) ==
    LET admin_annual ==
            IF 1 <= yr /\ yr <= 5
            THEN MulFrac(ToUnits(annual_premium_), 165, 10000)
            ELSE 0
    IN  admin_annual \div 12

\* 0.001 * SAR / 12 with SAR = max(max(fv, sum_assured) - fv, 0)
MortMonth(fv, sum_assured_) ==
    LET death_benefit == Max(fv, ToUnits(sum_assured_))
        sar == Max(death_benefit - fv, 0)
        annual_mortality == MulFrac(sar, 1, 1000)
    IN  annual_mortality \div 12

\* 0.18 * (mortality + other charges)
Gst(mortality, other_charges_) == MulFrac(mortality + other_charges_, 18, 100)

eff_growth_4(fund_choice_) == monthly_return_4 - monthly_fmc(fund_choice_)

\* a slip in the 8% branch: the annual FMC taken off every month
eff_growth_8_annual_fmc(fund_choice_) ==
    monthly_return_8 - FMC_map(fund_choice_) * 100

eff_growth_8(fund_choice_) == monthly_return_8 - monthly_fmc(fund_choice_)

\* fv * (1.0 + eff_growth)
Grow(fv, eff_growth) == fv + MulPpm(fv, eff_growth)

\* a deduction with the floor at zero left out
NoClamp(x) == x

\* max(fv, 0.0)
Clamp(x) == Max(x, 0)

\* a reordering: the admin charge comes off before the sum at risk is taken
DeductStepAdminFirst(fv, sum_assured_, admin_monthly_, other_charges_) ==
    LET mort == MortMonth(fv - admin_monthly_, sum_assured_)
        g    == Gst(mort, other_charges_)
    IN  [mort |-> mort, gst |-> g,
         fv |-> Clamp(fv - (admin_monthly_ + mort + g))]

\* one scenario's unit cancellation: mortality and GST on the balance after
\* growth, then admin, mortality and GST taken off, floored at zero
DeductStep(fv, sum_assured_, admin_monthly_, other_charges_) ==
    LET mort == MortMonth(fv, sum_assured_)
        g    == Gst(mort, other_charges_)
    IN  [mort |-> mort, gst |-> g,
         fv |-> Clamp(fv - (admin_monthly_ + mort + g))]

\* lines 101-153: premium, PAC, admin charge, and the net premium allocated
ChargesAndAllocation ==
    /\ pc = "alloc"
    /\ LET yr    == year_of_month(m)
           prem  == PremiumDue(m, ppt, annual_premium)
           pac   == PacAmount(prem, yr)
           admin == AdminMonthly(yr, annual_premium)
           other == pac + admin
           mmort == MortMonth(fv4, sum_assured)
       IN  /\ premium' = prem
           /\ pac_amount' = pac
           /\ admin_monthly' = admin
           /\ other_charges' = other
           /\ monthly_mortality' = mmort
           /\ gst' = Gst(mmort, other)
           /\ allocated_units_amount' = prem - pac
           /\ fv4' = fv4 + (prem - pac)
           /\ fv8' = fv8 + (prem - pac)
    /\ pc' = "growth"
    /\ UNCHANGED <<show_bi, inputs, m, trackers, deductions, additions, table>>

\* lines 155-160: monthly growth net of FMC
Growth ==
    /\ pc = "growth"
    /\ fv4' = Grow(fv4, eff_growth_4(fund_choice))
    /\ fv8' = Grow(fv8, eff_growth_8(fund_choice))
    /\ pc' = "deduct"
    /\ UNCHANGED <<show_bi, inputs, m, trackers, month_charges, deductions,
                   additions, table>>

\* lines 162-201: unit cancellation, the floor at zero, the month's records;
\* a month that is not a year end goes straight on to the next month
Deduction ==
    /\ pc = "deduct"
    /\ LET d4 == DeductStep(fv4, sum_assured, admin_monthly, other_charges)
           d8 == DeductStep(fv8, sum_assured, admin_monthly, other_charges)
       IN  /\ mort_month4' = d4.mort
           /\ mort_month8' = d8.mort
           /\ gst4' = d4.gst
           /\ gst8' = d8.gst
           /\ fv4' = d4.fv
           /\ fv8' = d8.fv
           /\ end_of_month_fv4' = Append(end_of_month_fv4, d4.fv)
           /\ end_of_month_fv8' = Append(end_of_month_fv8, d8.fv)
           /\ mortality_charges_monthly' =
                  Append(mortality_charges_monthly, <<d4.mort, d8.mort>>)
           /\ gst_monthly' = Append(gst_monthly, <<d4.gst, d8.gst>>)
    /\ premium_monthly' = Append(premium_monthly, premium)
    /\ allocation_charges_monthly' =
           Append(allocation_charges_monthly, pac_amount)
    /\ admin_charges_monthly' = Append(admin_charges_monthly, admin_monthly)
    /\ other_charges_monthly' = Append(other_charges_monthly, other_charges)
    /\ guaranteed_additions_monthly' = Append(guaranteed_additions_monthly, 0)
    /\ loyalty_additions_monthly' = Append(loyalty_additions_monthly, 0)
    /\ booster_additions_monthly' = Append(booster_additions_monthly, 0)
    /\ IF m % 12 = 0
       THEN pc' = "additions" /\ m' = m
       ELSE pc' = "alloc" /\ m' = m + 1
    /\ UNCHANGED <<show_bi, inputs, month_charges, additions, table>>

\* ------------------------------------------- monthly model: the additions
\* average of the last 12 end-of-month values (of all of them if fewer)
AvgLast12(eom) ==
    IF Len(eom) >= 12 THEN AvgLast(eom, 12) ELSE AvgLast(eom, Len(eom))

\* 0.25% of the trailing-12 average from the end of year 6
GuarAdd(avg_last_12, policy_year) ==
    IF policy_year >= 6 THEN MulFrac(avg_last_12, 25, 10000) ELSE 0

\* the loyalty rule without any reference to the paying term
LoyAddFromYear6(avg_last_12, policy_year, ppt_) ==
    IF policy_year >= 6 THEN MulFrac(avg_last_12, 15, 10000) ELSE 0

\* the loyalty rule with the window left open after the paying term
LoyAddOpenEnded(avg_last_12, policy_year, ppt_) ==
    IF ppt_ = 5 THEN 0
    ELSE IF policy_year >= 6 THEN MulFrac(avg_last_12, 15, 10000) ELSE 0

\* 0.15% of the trailing-12 average from the end of year 6 to the end of the
\* paying term; none when the paying term is 5
LoyAdd(avg_last_12, policy_year, ppt_) ==
    IF ppt_ = 5 THEN 0
    ELSE IF policy_year >= 6 /\ policy_year <= ppt_
         THEN MulFrac(avg_last_12, 15, 10000)
         ELSE 0

\* the booster started at the 5th year end instead of the 10th
BoosterAddFromYear5(eom, policy_year) ==
    IF policy_year >= 5 /\ policy_year % 5 = 0
    THEN MulFrac(AvgLast(eom, Min(Len(eom), 60)), 275, 10000)
    ELSE 0

\* 2.75% of the trailing-60 average at every 5th year end from the 10th
BoosterAdd(eom, policy_year) ==
    IF policy_year >= 10 /\ policy_year % 5 = 0
    THEN LET last_n == Min(Len(eom), 60)
             avg_last_60 == IF last_n > 0 THEN AvgLast(eom, last_n) ELSE 0
         IN  MulFrac(avg_last_60, 275, 10000)
    ELSE 0

\* lines 204-251: at a year end the additions are credited and the month's
\* recorded values are overwritten with the balance after the additions
YearEndAdditions ==
    /\ pc = "additions"
    /\ LET policy_year == m \div 12
           avg4 == AvgLast12(end_of_month_fv4)
           avg8 == AvgLast12(end_of_month_fv8)
           g4 == GuarAdd(avg4, policy_year)
           g8 == GuarAdd(avg8, policy_year)
           l4 == LoyAdd(avg4, policy_year, ppt)
           l8 == LoyAdd(avg8, policy_year, ppt)
           b4 == BoosterAdd(end_of_month_fv4, policy_year)
           b8 == BoosterAdd(end_of_month_fv8, policy_year)
       IN  /\ guar_add_4' = g4
           /\ guar_add_8' = g8
           /\ loy_add_4' = l4
           /\ loy_add_8' = l8
           /\ booster_add_4' = b4
           /\ booster_add_8' = b8
           /\ fv4' = fv4 + g4 + l4 + b4
           /\ fv8' = fv8 + g8 + l8 + b8
           /\ guaranteed_additions_monthly' =
                  SetLast(guaranteed_additions_monthly, g4)
           /\ loyalty_additions_monthly' =
                  SetLast(loyalty_additions_monthly, l4)
           /\ booster_additions_monthly' =
                  SetLast(booster_additions_monthly, b4)
           /\ end_of_month_fv4' = SetLast(end_of_month_fv4, fv4 + g4 + l4 + b4)
           /\ end_of_month_fv8' = SetLast(end_of_month_fv8, fv8 + g8 + l8 + b8)
    /\ IF m = total_months
       THEN pc' = "aggregate" /\ m' = m /\ y' = 1
       ELSE pc' = "alloc" /\ m' = m + 1 /\ y' = y
    /\ UNCHANGED <<show_bi, inputs, premium_monthly,
                   allocation_charges_monthly, admin_charges_monthly,
                   mortality_charges_monthly, gst_monthly,
                   other_charges_monthly, month_charges, deductions, rows>>

\* ----------------------------------------------- aggregation per policy year
\* the end-of-month value at the wrong end of the slice
FvEndOffByOne(eom, end_month) ==
    IF end_month - 1 <= Len(eom) /\ end_month > 1
    THEN eom[end_month - 1]
    ELSE eom[Len(eom)]

\* end_of_month_fv[end_month-1] if end_month-1 < len(...) else the last one
FvEnd(eom, end_month) ==
    IF end_month <= Len(eom) THEN eom[end_month] ELSE eom[Len(eom)]

\* the year's mortality charge as the table shows it: the sum over the year
\* (lines 265-266) is overwritten by 0.001 * SAR at the year end (275-276)
MortYear(fv_end, sum_assured_) ==
    LET death_benefit == Max(fv_end, ToUnits(sum_assured_))
        sar == Max(death_benefit - fv_end, 0)
    IN  MulFrac(sar, 1, 1000)

\* lines 256-312: one table row
YearRow(y_) ==
    LET start_month == (y_ - 1) * 12
        end_month == y_ * 12
        annual_prem == SumRange(premium_monthly, start_month + 1, end_month)
        pac_year ==
            SumRange(allocation_charges_monthly, start_month + 1, end_month)
        admin_year ==
            SumRange(admin_charges_monthly, start_month + 1, end_month)
        other_charges_year == pac_year + admin_year
        fv4_end == FvEnd(end_of_month_fv4, end_month)
        fv8_end == FvEnd(end_of_month_fv8, end_month)
        mort_year_4 == MortYear(fv4_end, sum_assured)
        mort_year_8 == MortYear(fv8_end, sum_assured)
        gst_year_4 == Gst(mort_year_4, other_charges_year)
        gst_year_8 == Gst(mort_year_8, other_charges_year)
        surrender_4 == fv4_end
        surrender_8 == fv8_end
        death_ben_4 == Max(surrender_4, ToUnits(sum_assured))
        death_ben_8 == Max(surrender_8, ToUnits(sum_assured))
    IN  [policy_year |-> y_,
         annualized_premium |-> annual_prem,
         gross_return_4 |-> gross_return_4,
         mortality_4 |-> Round2(mort_year_4),
         other_charges_4 |-> Round2(other_charges_year),
         gst_4 |-> Round2(gst_year_4),
         fund_4 |-> Round2(surrender_4),
         surrender_4 |-> Round2(surrender_4),
         death_benefit_4 |-> Round2(death_ben_4),
         gross_return_8 |-> gross_return_8,
         mortality_8 |-> Round2(mort_year_8),
         other_charges_8 |-> Round2(other_charges_year),
         gst_8 |-> Round2(gst_year_8),
         fund_8 |-> Round2(surrender_8),
         surrender_8 |-> Round2(surrender_8),
         death_benefit_8 |-> Round2(death_ben_8)]

\* lines 255-312: the loop over the policy years, one row each
AggregateYear ==
    /\ pc = "aggregate"
    /\ rows' = Append(rows, YearRow(y))
    /\ IF y = policy_term
       THEN pc' = "done" /\ y' = y
       ELSE pc' = "aggregate" /\ y' = y + 1
    /\ UNCHANGED <<show_bi, inputs, m, balances, trackers, month_charges,
                   deductions, additions>>

Next ==
    \/ SetInputs
    \/ GenerateBI
    \/ ChargesAndAllocation
    \/ Growth
    \/ Deduction
    \/ YearEndAdditions
    \/ AggregateYear

Spec == Init /\ [][Next]_vars

\* ================================================================ claims
\* number of months recorded so far, and of year ends whose additions have
\* been credited
Recorded == Len(end_of_month_fv4)
CompletedYears ==
    IF pc = "additions" THEN Recorded \div 12 - 1 ELSE Recorded \div 12

\* balance carried into month k
Carried(eom, k) == IF k = 1 THEN 0 ELSE eom[k - 1]

\* ---------------------------------------------------------------------- C1
\* C1: in both scenarios the balance is >= 0 after the deduction of admin
\* charge, mortality charge and GST of every month and after the year-end
\* additions; every recorded end-of-month value is >= 0, and the balance a
\* month starts from (before its net premium) is >= 0: no debt is carried.
C1_NonNegative ==
    /\ pc \in {"alloc", "additions", "aggregate", "done"} =>
           fv4 >= 0 /\ fv8 >= 0
    /\ \A k \in 1 .. Recorded :
           end_of_month_fv4[k] >= 0 /\ end_of_month_fv8[k] >= 0
    /\ pc = "growth" =>
           /\ fv4 - allocated_units_amount >= 0
           /\ fv8 - allocated_units_amount >= 0

\* a month whose charges exceeded the 4% balance after growth has just been
\* deducted, and the balance stands at zero
C1_Witness ==
    /\ pc = "alloc"
    /\ Recorded >= 1
    /\ LET k == Recorded
           B == Grow(Carried(end_of_month_fv4, k) + allocated_units_amount,
                     eff_growth_4(fund_choice))
       IN  /\ k % 12 # 0
           /\ B > 0
           /\ B < admin_monthly + mort_month4 + gst4
    /\ fv4 = 0

\* ---------------------------------------------------------------------- C2
\* C2: once the monthly loop has run to the end of the policy term, the 8%
\* scenario's maturity value is >= the 4% scenario's, as balance and as the
\* recorded value of the last month.
C2_ScenarioOrdering ==
    pc \in {"aggregate", "done"} =>
        /\ fv8 >= fv4
        /\ end_of_month_fv8[total_months] >= end_of_month_fv4[total_months]

C2_Witness ==
    /\ pc = "done"
    /\ annual_premium > 0
    /\ fv4 > 0
    /\ fv8 > fv4

\* ---------------------------------------------------------------------- C3
\* C3: every table row y shows, for both scenarios, as surrender value (and
\* as fund value) the recorded value of month 12*y, which at the end of the
\* loop is the balance after the additions, rounded to paise; and as death
\* benefit the larger of that and the sum assured, so never less than the sum
\* assured.
C3_YearRow ==
    /\ pc \in {"aggregate", "done"} =>
           /\ end_of_month_fv4[total_months] = fv4
           /\ end_of_month_fv8[total_months] = fv8
    /\ \A i \in 1 .. Len(rows) :
           LET r == rows[i]
           IN  /\ r.policy_year = i
               /\ r.surrender_4 = Round2(end_of_month_fv4[12 * i])
               /\ r.surrender_8 = Round2(end_of_month_fv8[12 * i])
               /\ r.fund_4 = r.surrender_4
               /\ r.fund_8 = r.surrender_8
               /\ r.death_benefit_4 = Max(r.surrender_4, ToPaise(sum_assured))
               /\ r.death_benefit_8 = Max(r.surrender_8, ToPaise(sum_assured))
               /\ r.death_benefit_4 >= ToPaise(sum_assured)
               /\ r.death_benefit_8 >= ToPaise(sum_assured)

\* a finished table with a year where the sum assured is the death benefit, a
\* year where the fund is, and a year-end value that round(x, 2) changes
C3_Witness ==
    /\ pc = "done"
    /\ sum_assured > 0
    /\ \E i \in 1 .. Len(rows) :
           /\ rows[i].surrender_4 < ToPaise(sum_assured)
           /\ rows[i].death_benefit_4 = ToPaise(sum_assured)
    /\ \E i \in 1 .. Len(rows) :
           /\ rows[i].surrender_4 > ToPaise(sum_assured)
           /\ rows[i].death_benefit_4 = rows[i].surrender_4
    /\ \E i \in 1 .. Len(rows) : end_of_month_fv4[12 * i] % 2 = 1

\* ---------------------------------------------------------------------- C4
RECURSIVE SumComponent(_, _, _, _)
\* sum of component c of the pairs s[lo..hi]
SumComponent(s, c, lo, hi) ==
    IF lo > hi THEN 0 ELSE s[lo][c] + SumComponent(s, c, lo + 1, hi)

\* C4: in every table row y and each scenario, premium, other charges,
\* mortality charge and GST are the sums over the months 12*(y-1)+1 .. 12*y
\* of the amounts recorded for (and deducted in) those months.
C4_RowsSumMonthlyCharges ==
    \A i \in 1 .. Len(rows) :
        LET r  == rows[i]
            lo == 12 * (i - 1) + 1
            hi == 12 * i
        IN  /\ r.annualized_premium = SumRange(premium_monthly, lo, hi)
            /\ r.other_charges_4 =
                   Round2(SumRange(other_charges_monthly, lo, hi))
            /\ r.other_charges_8 =
                   Round2(SumRange(other_charges_monthly, lo, hi))
            /\ r.mortality_4 =
                   Round2(SumComponent(mortality_charges_monthly, 1, lo, hi))
            /\ r.mortality_8 =
                   Round2(SumComponent(mortality_charges_monthly, 2, lo, hi))
            /\ r.gst_4 = Round2(SumComponent(gst_monthly, 1, lo, hi))
            /\ r.gst_8 = Round2(SumComponent(gst_monthly, 2, lo, hi))

\* the part of C4 about premium and other charges alone
C4_PremiumAndOtherChargesSummed ==
    \A i \in 1 .. Len(rows) :
        LET r  == rows[i]
            lo == 12 * (i - 1) + 1
            hi == 12 * i
        IN  /\ r.annualized_premium = SumRange(premium_monthly, lo, hi)
            /\ r.other_charges_4 =
                   Round2(SumRange(other_charges_monthly, lo, hi))
            /\ r.other_charges_8 = r.other_charges_4

\* ---------------------------------------------------------------------- C5
\* C5: every run of the monthly model has 5 <= premium paying term <= policy
\* term; an input with a paying term beyond the policy term is not projected.
C5_PayingTermWithinPolicyTerm ==
    show_bi => (MinPpt <= ppt /\ ppt <= policy_term)

\* the bounds the form does enforce on a run
C5_WidgetBounds ==
    show_bi =>
        /\ MinPpt <= ppt /\ ppt <= MaxPpt
        /\ MinPolicyTerm <= policy_term /\ policy_term <= MaxPolicyTerm
        /\ annual_premium >= MinPremium
        /\ sum_assured >= MinSumAssured

\* ---------------------------------------------------------------------- C6
\* the schedule as the claim words it, in units
ExpectedPremium(k) ==
    IF k % 12 = 1 /\ (k + 11) \div 12 <= ppt
    THEN annual_premium * Scale
    ELSE 0

ExpectedAllocationCharge(k) ==
    LET yr == (k + 11) \div 12
    IN  IF yr = 1 THEN (ExpectedPremium(k) * 6) \div 100
        ELSE IF yr <= 5 THEN (ExpectedPremium(k) * 4) \div 100
        ELSE 0

\* C6: every month's premium received is the annual premium in the first
\* month of a policy year within the paying term and 0 otherwise; its
\* allocation charge is 6% of it in year 1, 4% in years 2-5, 0 from year 6;
\* and each scenario's balance rises by exactly premium minus charge.
C6_AllocationSchedule ==
    /\ \A k \in 1 .. Len(premium_monthly) :
           /\ premium_monthly[k] = ExpectedPremium(k)
           /\ allocation_charges_monthly[k] = ExpectedAllocationCharge(k)
    /\ pc = "growth" =>
           /\ premium = ExpectedPremium(m)
           /\ pac_amount = ExpectedAllocationCharge(m)
           /\ allocated_units_amount = premium - pac_amount
           /\ fv4 = Carried(end_of_month_fv4, m) + premium - pac_amount
           /\ fv8 = Carried(end_of_month_fv8, m) + premium - pac_amount

\* premium 100000 in year 1: charge 6000, 94000 invested in both scenarios
C6_Witness ==
    /\ pc = "growth"
    /\ m = 1
    /\ annual_premium = 100000
    /\ premium = ToUnits(100000)
    /\ pac_amount = ToUnits(6000)
    /\ fv4 = ToUnits(94000)
    /\ fv8 = ToUnits(94000)

\* ---------------------------------------------------------------------- C7
\* C7: the booster credited is zero in every month that is not a year end,
\* at every year end whose policy year is not a multiple of 5, and at year
\* 5; it can be nonzero only at policy years 10, 15, 20, ... (4% scenario:
\* every recorded month; 8% scenario: the latest year end credited).
C7_BoosterCadence ==
    /\ \A k \in 1 .. Len(booster_additions_monthly) :
           booster_additions_monthly[k] # 0 =>
               /\ k % 12 = 0
               /\ (k \div 12) % 5 = 0
               /\ k \div 12 >= 10
    /\ \A b \in {booster_add_4, booster_add_8} :
           b # 0 => (CompletedYears % 5 = 0 /\ CompletedYears >= 10)

\* boosters credited at the ends of years 10 and 15, none at the end of year
\* 5 although the fund was not empty
C7_Witness ==
    /\ Len(booster_additions_monthly) >= 180
    /\ end_of_month_fv4[60] > 0
    /\ booster_additions_monthly[60] = 0
    /\ booster_additions_monthly[120] > 0
    /\ booster_additions_monthly[180] > 0
    /\ CompletedYears = 15
    /\ booster_add_8 > 0

\* ---------------------------------------------------------------------- C8
\* C8: with a premium paying term of 5 the loyalty addition is zero at every
\* year end, in both scenarios.
C8_LoyaltySuppressed ==
    ppt = 5 =>
        /\ \A k \in 1 .. Len(loyalty_additions_monthly) :
               loyalty_additions_monthly[k] = 0
        /\ loy_add_4 = 0
        /\ loy_add_8 = 0

\* paying term 5, the end of year 6 credited: a guaranteed addition, so the
\* trailing average is positive, and no loyalty addition
C8_Witness ==
    /\ ppt = 5
    /\ CompletedYears >= 6
    /\ guaranteed_additions_monthly[72] > 0
    /\ loyalty_additions_monthly[72] = 0

\* ---------------------------------------------------------------------- C9
\* the trailing-12 average as it stood when the additions of year end k were
\* computed: months k-11 .. k-1 as recorded, month k before its additions
TrailingAvgAt(eom, k, before_additions) ==
    AvgLast(Append(SubSeq(eom, k - 11, k - 1), before_additions), 12)

TrailingAvg4At(k) ==
    TrailingAvgAt(end_of_month_fv4, k,
                  end_of_month_fv4[k] - guaranteed_additions_monthly[k]
                      - loyalty_additions_monthly[k]
                      - booster_additions_monthly[k])

TrailingAvg8AtLatest ==
    TrailingAvgAt(end_of_month_fv8, 12 * CompletedYears,
                  end_of_month_fv8[12 * CompletedYears] - guar_add_8
                      - loy_add_8 - booster_add_8)

\* C9 as stated: with a paying term above 5, 0.15% of the trailing-12
\* average is credited at every year end from year 6 up to the policy term.
C9_LoyaltyEveryYearFromSix ==
    ppt > 5 =>
        \A yy \in 1 .. CompletedYears :
            loyalty_additions_monthly[12 * yy] =
                IF yy >= 6
                THEN MulFrac(TrailingAvg4At(12 * yy), 15, 10000)
                ELSE 0

\* C9 amended: the loyalty addition is 0.15% of the trailing-12 average at
\* the year ends of policy years 6 .. premium paying term when the paying
\* term is not 5, and zero at every other year end (4% scenario: every year
\* end credited; 8% scenario: the latest one).
C9_LoyaltyWindow ==
    /\ \A yy \in 1 .. CompletedYears :
           loyalty_additions_monthly[12 * yy] =
               IF ppt # 5 /\ yy >= 6 /\ yy <= ppt
               THEN MulFrac(TrailingAvg4At(12 * yy), 15, 10000)
               ELSE 0
    /\ CompletedYears >= 1 =>
           /\ loy_add_4 = loyalty_additions_monthly[12 * CompletedYears]
           /\ loy_add_8 =
                  IF ppt # 5 /\ CompletedYears >= 6 /\ CompletedYears <= ppt
                  THEN MulFrac(TrailingAvg8AtLatest, 15, 10000)
                  ELSE 0

\* paying term 7 in a longer policy: loyalty credited at the ends of years 6
\* and 7, none at the end of year 8, where a guaranteed addition is credited
C9_Witness ==
    /\ ppt = 7
    /\ CompletedYears >= 8
    /\ loyalty_additions_monthly[72] > 0
    /\ loyalty_additions_monthly[84] > 0
    /\ loyalty_additions_monthly[96] = 0
    /\ guaranteed_additions_monthly[96] > 0

\* --------------------------------------------------------------------- C10
\* a month replayed in the order the claim gives: net premium in, growth,
\* mortality on the grown balance, GST on mortality + PAC + admin, deduction
Replay(carried, k, eff, credited) ==
    LET net  == premium_monthly[k] - allocation_charges_monthly[k]
        B    == Grow(carried + net, eff)
        mort == Max(Max(B, sum_assured * Scale) - B, 0) \div 12000
        tax  == ((mort + allocation_charges_monthly[k]
                       + admin_charges_monthly[k]) * 18) \div 100
    IN  [mort |-> mort, gst |-> tax,
         fv |-> Max(B - admin_charges_monthly[k] - mort - tax, 0) + credited]

\* additions credited to the 8% balance at month k, as far as the state shows
Credited8(k) ==
    IF k = 12 * CompletedYears
    THEN guar_add_8 + loy_add_8 + booster_add_8
    ELSE 0

\* C10: every recorded month of each scenario is the result of: net premium
\* added, growth applied to that balance, mortality charge (0.001/12 of the
\* sum at risk) taken on the grown balance of the same scenario, GST 18% of
\* mortality + allocation + admin charge, then admin, mortality and GST
\* deducted with the floor at zero, then the year-end additions.
C10_PipelineOrder ==
    /\ \A k \in 1 .. Recorded :
           LET r4 == Replay(Carried(end_of_month_fv4, k), k,
                            eff_growth_4(fund_choice),
                            guaranteed_additions_monthly[k]
                                + loyalty_additions_monthly[k]
                                + booster_additions_monthly[k])
               r8 == Replay(Carried(end_of_month_fv8, k), k,
                            eff_growth_8(fund_choice), Credited8(k))
           IN  /\ mortality_charges_monthly[k] = <<r4.mort, r8.mort>>
               /\ gst_monthly[k] = <<r4.gst, r8.gst>>
               /\ end_of_month_fv4[k] = r4.fv
               /\ IF k % 12 # 0 \/ k = 12 * CompletedYears
                      \/ k > 12 * CompletedYears
                  THEN end_of_month_fv8[k] = r8.fv
                  ELSE end_of_month_fv8[k] >= r8.fv
    /\ pc = "deduct" =>
           /\ fv4 = Grow(Carried(end_of_month_fv4, m)
                             + allocated_units_amount,
                         eff_growth_4(fund_choice))
           /\ fv8 = Grow(Carried(end_of_month_fv8, m)
                             + allocated_units_amount,
                         eff_growth_8(fund_choice))

\* month 13 just deducted: a premium month, with a sum at risk in both
\* scenarios and a smaller one in the 8% scenario
C10_Witness ==
    /\ pc = "alloc"
    /\ Recorded = 13
    /\ premium_monthly[13] > 0
    /\ mort_month4 > 0
    /\ mort_month8 > 0
    /\ mort_month8 < mort_month4
    /\ gst4 > gst8
    /\ fv8 > fv4

====
